---- MODULE Spec2Model ----
(***************************************************************************)
(* Model of the web search-and-extraction tool: playwright_tool.py (the    *)
(* "plain" variant) and playwright_ocr_tool.py (the "hybrid" variant).     *)
(*                                                                         *)
(* A Python str is modelled as a sequence of string tokens, so that        *)
(* f-strings and str.join are real concatenations and "" is <<>>.          *)
(* An optional str (None or a str) is a record [isNone, text].             *)
(***************************************************************************)
EXTENDS Integers, Sequences, FiniteSets, TLC

(* ------------------------------ bounds --------------------------------- *)

\* largest number of entries in the 'results' array of a search response
MaxK == 4

(* ------------------------- program constants --------------------------- *)

MAX_RESULTS_TO_PARSE == 3

\* the sites the search backend knows
URL == { "https://a.example", "https://b.example" }

Variants == { "plain", "hybrid" }

(* ------------------------------ strings -------------------------------- *)

Min(a, b) == IF a <= b THEN a ELSE b

\* sep.join(parts)
RECURSIVE Join(_, _)
Join(parts, sep) ==
    IF parts = <<>> THEN <<>>
    ELSE IF Len(parts) = 1 THEN parts[1]
    ELSE parts[1] \o sep \o Join(Tail(parts), sep)

None == [isNone |-> TRUE, text |-> <<>>]

Str(s) == [isNone |-> FALSE, text |-> s]

\* Python truthiness of an optional str: `if text:` / `if not clean_text:`
Truthy(t) == ~t.isNone /\ t.text # <<>>

(* --------------------------- text extraction --------------------------- *)

\* unstructured element classes that are Text or a subclass of it
TextClasses == { "Title", "NarrativeText", "Text", "ListItem" }

\* isinstance(e, (Title, NarrativeText, Text))
IsTextElement(e) == e.cls \in TextClasses

\* add_markdonwn(text, element_class) of either file
add_markdonwn(v, text, element_class) ==
    IF element_class = "Title"
      THEN (IF v = "plain" THEN <<"# ">> ELSE <<"## ">>) \o text
    ELSE IF element_class = "Text"
      THEN <<"*">> \o text \o <<"*">>
    ELSE text

\* the loop over elements building clean_text_parts
RECURSIVE CleanTextParts(_, _)
CleanTextParts(v, elements) ==
    IF elements = <<>> THEN <<>>
    ELSE LET e == Head(elements)
             rest == CleanTextParts(v, Tail(elements))
         IN  IF IsTextElement(e)
               THEN << add_markdonwn(v, e.text, e.cls) >> \o rest
               ELSE rest

\* "\n".join(clean_text_parts)
CleanText(v, elements) == Join(CleanTextParts(v, elements), <<"\n">>)

\* what partition_html returns for the rendered page of each site: the second site
\* has no text element at all
ElementsOf(u) ==
    IF u = "https://a.example"
      THEN << [cls |-> "Title", text |-> <<"Heading">>],
              [cls |-> "NarrativeText", text |-> <<"Body.">>],
              [cls |-> "CheckBox", text |-> <<>>],
              [cls |-> "Text", text |-> <<"note">>],
              [cls |-> "ListItem", text |-> <<"item">>] >>
      ELSE << [cls |-> "CheckBox", text |-> <<>>] >>

\* what the vision model answers for the screenshot of each site
VlmResponse(u) == << "visuals of ", u >>

(* ------------------------------- state --------------------------------- *)

VARIABLES
    variant,       \* which of the two tool files is running
    pc,            \* position of search_and_parse_web / test_run
    searchCalls,   \* number of client.get calls made to the search backend
    response,      \* what the search backend answered to client.get
    found,         \* the URLs extracted from the search response, untruncated
    urls,          \* the local `urls` handed to the fan-out
    invoked,       \* URLs the page processor has been called with, in call order
    task,          \* one page-processor coroutine per dispatched URL
    finished,      \* indices of the page-processor tasks, in completion order
    output,        \* what search_and_parse_web returned (or raised)
    stdout,        \* sequence of strings written to sys.stdout
    stderr,        \* set of strings written to sys.stderr
    file           \* content of results.md / tool_output.md

vars == << variant, pc, searchCalls, response, found, urls, invoked, task, finished,
           output, stdout, stderr, file >>

Tasks == 1..MAX_RESULTS_TO_PARSE

NoPending == [kind |-> "none", value |-> None, exc |-> ""]

Unset == [kind |-> "unset", text |-> <<>>, exc |-> ""]

NoResult == [kind |-> "pending", text |-> None, url |-> "", exc |-> ""]

UnusedTask ==
    [ pc |-> "unused", url |-> "", pw |-> "none", browser |-> "none",
      pending |-> NoPending, failed |-> {},
      text_markdown |-> Unset, visual_descriptions |-> Unset,
      result |-> NoResult ]

\* the coroutine object created by get_and_parse_page(url) / get_hybrid_parsed_page(url)
NewTask(u) == [UnusedTask EXCEPT !.pc = "created", !.url = u]

Init ==
    /\ variant \in Variants
    /\ pc = "start"
    /\ searchCalls = 0
    /\ response = [kind |-> "none", cause |-> "", hasResults |-> FALSE, results |-> <<>>]
    /\ found = <<>>
    /\ urls = <<>>
    /\ invoked = <<>>
    /\ task = [i \in Tasks |-> UnusedTask]
    /\ finished = <<>>
    /\ output = [kind |-> "none", text |-> <<>>, exc |-> ""]
    /\ stdout = <<>>
    /\ stderr = {}
    /\ file = <<>>

(* ------------------------- search_and_parse_web ------------------------ *)

SearchFailures == { "ConnectError", "ReadTimeout", "HTTPStatusError", "JSONDecodeError" }

RECURSIVE SeqsUpTo(_, _)
SeqsUpTo(S, n) ==
    IF n = 0 THEN { <<>> }
    ELSE LET shorter == SeqsUpTo(S, n - 1)
         IN  shorter \cup { Append(s, x) : s \in { t \in shorter : Len(t) = n - 1 }, x \in S }

\* the JSON bodies the backend can answer with: the 'results' array may be missing
SearchResponses ==
    { [kind |-> "json", cause |-> "", hasResults |-> FALSE, results |-> <<>>] }
        \cup { [kind |-> "json", cause |-> "", hasResults |-> TRUE, results |-> r] :
                 r \in SeqsUpTo(URL, MaxK) }

\* [r["url"] for r in results.get("results", [])]
ResultsOf(resp) == IF resp.hasResults THEN resp.results ELSE <<>>

\* a slice that is one short: urls[:MAX_RESULTS_TO_PARSE - 1]
TruncateOneShort(list) == SubSeq(list, 1, Min(Len(list), MAX_RESULTS_TO_PARSE - 1))

\* urls[:MAX_RESULTS_TO_PARSE]
Truncate(list) == SubSeq(list, 1, Min(Len(list), MAX_RESULTS_TO_PARSE))

\* the emptiness test left out
NoUrlsUnchecked(list) == FALSE

\* `if not urls:`
NoUrls(list) == list = <<>>

NoResultsMessage == << "No search results found." >>

\* an error string that leaves the exception out
SearchErrorWithoutCause(e) == << "Error querying SearXNG" >>

\* f"Error querying SearXNG: {e}"
SearchErrorResult(e) == << "Error querying SearXNG: ", e >>

Returned(text) == [kind |-> "return", text |-> text, exc |-> ""]

Raised(e) == [kind |-> "raise", text |-> <<>>, exc |-> e]

\* Step 1, the search call fails: the except clause logs and returns the error string
SearchFails ==
    /\ pc = "start"
    /\ \E e \in SearchFailures :
         /\ response' = [kind |-> "error", cause |-> e, hasResults |-> FALSE, results |-> <<>>]
         /\ stderr' = stderr \cup { << "--- 1. Searching SearXNG" >>, SearchErrorResult(e) }
         /\ output' = Returned(SearchErrorResult(e))
    /\ searchCalls' = searchCalls + 1
    /\ pc' = "returned"
    /\ UNCHANGED << variant, found, urls, invoked, task, finished, stdout, file >>

\* Step 1, the search call answers with a JSON body
SearchAnswers ==
    /\ pc = "start"
    /\ searchCalls' = searchCalls + 1
    /\ \E resp \in SearchResponses :
         LET all == ResultsOf(resp)
             cut == Truncate(all)
         IN  /\ response' = resp
             /\ found' = all
             /\ IF NoUrls(IF variant = "plain" THEN all ELSE cut)
                  THEN /\ urls' = (IF variant = "plain" THEN all ELSE cut)
                       /\ output' = Returned(NoResultsMessage)
                       /\ stderr' = stderr \cup { << "--- 1. Searching SearXNG" >> }
                       /\ pc' = "returned"
                  ELSE /\ urls' = cut
                       /\ output' = output
                       /\ stderr' = stderr \cup { << "--- 1. Searching SearXNG" >>,
                                                  << "--- 2. Found URLs. Starting parser" >> }
                       /\ pc' = "dispatch"
    /\ UNCHANGED << variant, invoked, task, finished, stdout, file >>

\* tasks = [page_processor(url) for url in urls], handed to asyncio.gather
Dispatch ==
    /\ pc = "dispatch"
    /\ task' = [i \in Tasks |-> IF i <= Len(urls) THEN NewTask(urls[i]) ELSE UnusedTask]
    /\ invoked' = invoked \o urls
    /\ pc' = "gather"
    /\ UNCHANGED << variant, searchCalls, response, found, urls, finished, output, stdout, stderr, file >>

(* ----------- get_and_parse_page / get_hybrid_parsed_page ---------------- *)

\* a driver stop that leaves the browsers it launched running
DriverStopLeavesBrowser(b) == b

\* stopping the playwright driver at the end of `async with async_playwright()`
\* ends every browser the driver launched
DriverStop(b) == IF b = "launched" THEN "closed" ELSE b

\* no except clause: the exception leaves the page processor
ExceptHandlerPropagates(u, e) == [kind |-> "raise", text |-> None, url |-> u, exc |-> e]

\* `except Exception as e: ... return None, url` of the page processor
ExceptHandler(u, e) == [kind |-> "return", text |-> None, url |-> u, exc |-> ""]

\* `return <text>, url` of the page processor
ReturnPair(t, u) == [kind |-> "return", text |-> t, url |-> u, exc |-> ""]

\* f"  > Error parsing {url}: {e}"
ErrorParsing(u, e) == << "  > Error parsing ", u, ": ", e >>

\* an exception raised by an await inside the `async with` block: the block is left
\* through the context manager's exit with the exception pending
RaiseInScope(t, step) ==
    [t EXCEPT !.pc = "exiting",
              !.pending = [kind |-> "raise", value |-> None, exc |-> step],
              !.failed = @ \cup {step}]

\* the task ends with result r
Finish(t, r) == [t EXCEPT !.pc = "done", !.pending = NoPending, !.result = r]

\* the progress log, entering `async with async_playwright() as p`, and
\* browser = await p.chromium.launch()
Launch(i) ==
    /\ pc = "gather" /\ task[i].pc = "created"
    /\ \E ok \in BOOLEAN :
         task' = [task EXCEPT ![i] =
                    IF ok THEN [@ EXCEPT !.pc = "goto", !.pw = "started", !.browser = "launched"]
                          ELSE RaiseInScope([@ EXCEPT !.pw = "started"], "launch")]
    /\ stderr' = stderr \cup
         { << (IF variant = "plain" THEN "  > Parsing: " ELSE "  > Hybrid parsing: "),
              task[i].url >> }
    /\ UNCHANGED << variant, pc, searchCalls, response, found, urls, invoked, finished,
                    output, stdout, file >>

\* page = await browser.new_page(); await page.goto(url, timeout=10000): the
\* navigation may time out or fail otherwise
Goto(i) ==
    /\ pc = "gather" /\ task[i].pc = "goto"
    /\ \E outcome \in { "ok", "timeout", "navigation" } :
         task' = [task EXCEPT ![i] =
                    IF outcome = "ok" THEN [@ EXCEPT !.pc = "content"]
                                      ELSE RaiseInScope(@, outcome)]
    /\ UNCHANGED << variant, pc, searchCalls, response, found, urls, invoked, finished,
                    output, stdout, stderr, file >>

\* html_content = await page.content()
Content(i) ==
    /\ pc = "gather" /\ task[i].pc = "content"
    /\ \E ok \in BOOLEAN :
         task' = [task EXCEPT ![i] =
                    IF ok THEN [@ EXCEPT !.pc = IF variant = "plain" THEN "close"
                                                ELSE "screenshot"]
                          ELSE RaiseInScope(@, "content")]
    /\ UNCHANGED << variant, pc, searchCalls, response, found, urls, invoked, finished,
                    output, stdout, stderr, file >>

\* screenshot_bytes = await page.screenshot(full_page=True)   (hybrid only)
Screenshot(i) ==
    /\ pc = "gather" /\ task[i].pc = "screenshot"
    /\ \E ok \in BOOLEAN :
         task' = [task EXCEPT ![i] =
                    IF ok THEN [@ EXCEPT !.pc = "close"]
                          ELSE RaiseInScope(@, "screenshot")]
    /\ UNCHANGED << variant, pc, searchCalls, response, found, urls, invoked, finished,
                    output, stdout, stderr, file >>

\* f"  > No text found at: {url}"
NoTextFound(u) == << "  > No text found at: ", u >>

\* plain variant, lines 49-66: partition_html, the filter/format loop and the return,
\* run without suspension after browser.close() returns
PlainParse(t, ok) ==
    IF ~ok THEN RaiseInScope(t, "extraction")
    ELSE LET clean_text == Str(CleanText("plain", ElementsOf(t.url)))
         IN  [t EXCEPT !.pc = "exiting",
                       !.pending = [kind |-> "return",
                                    value |-> IF Truthy(clean_text) THEN clean_text ELSE None,
                                    exc |-> ""]]

\* await browser.close() and the code up to the end of the `async with` block
Close(i) ==
    /\ pc = "gather" /\ task[i].pc = "close"
    /\ \E ok \in BOOLEAN, parseOk \in BOOLEAN :
         LET closed == [task[i] EXCEPT !.browser = "closed"]
             next == IF ~ok THEN RaiseInScope(task[i], "close")
                     ELSE IF variant = "plain" THEN PlainParse(closed, parseOk)
                     ELSE [closed EXCEPT !.pc = "exiting",
                                         !.pending = [kind |-> "continue", value |-> None,
                                                      exc |-> ""]]
         IN  /\ (variant = "hybrid" \/ ~ok) => parseOk
             /\ task' = [task EXCEPT ![i] = next]
             /\ stderr' = IF next.pending.kind = "return" /\ next.pending.value.isNone
                            THEN stderr \cup { NoTextFound(task[i].url) }
                            ELSE stderr
    /\ UNCHANGED << variant, pc, searchCalls, response, found, urls, invoked, finished,
                    output, stdout, file >>

\* leaving `async with async_playwright()`: the driver is stopped, then the pending
\* return or exception takes effect (the exception lands in the except clause)
ScopeExit(i) ==
    /\ pc = "gather" /\ task[i].pc = "exiting"
    /\ LET t == [task[i] EXCEPT !.pw = "stopped", !.browser = DriverStop(@)]
           k == task[i].pending.kind
       IN  /\ task' = [task EXCEPT ![i] =
                 IF k = "raise" THEN Finish(t, ExceptHandler(t.url, t.pending.exc))
                 ELSE IF k = "return" THEN Finish(t, ReturnPair(t.pending.value, t.url))
                 ELSE [t EXCEPT !.pc = "parsing", !.pending = NoPending]]
           /\ stderr' = IF k = "raise"
                          THEN stderr \cup { ErrorParsing(t.url, t.pending.exc) }
                          ELSE stderr
           /\ finished' = IF k = "continue" THEN finished ELSE Append(finished, i)
    /\ UNCHANGED << variant, pc, searchCalls, response, found, urls, invoked, output, stdout, file >>

(* ---------------------- hybrid variant, sub-tasks ---------------------- *)

SubReturn(text) == [kind |-> "return", text |-> text, exc |-> ""]

SubRaise(e) == [kind |-> "raise", text |-> <<>>, exc |-> e]

\* except clause of parse_text_with_unstructured
OnTextException(e) == SubReturn(<< "[Unstructured text parsing failed]" >>)

\* no except clause around the vision call: the exception leaves the sub-task
OnVlmExceptionPropagates(e) == SubRaise(e)

\* except clause of parse_images_with_vlm: f"[VLM analysis failed: {e}]"
OnVlmException(e) == SubReturn(<< "[VLM analysis failed: ", e, "]" >>)

\* f"    > VLM parser failed: {e}"
VlmFailedMessage(e) == << "    > VLM parser failed: ", e >>

\* the f-string building final_markdown
FinalMarkdown(text_markdown, visual_descriptions) ==
    text_markdown \o << "\n\n", "---\n\n", "# Visual Elements Analysis (from VLM)\n\n" >>
        \o visual_descriptions

\* parse_text_with_unstructured(): the first task of the inner asyncio.gather; it
\* has no suspension point, so it runs to its end before the vision task starts
TextParser(i) ==
    /\ pc = "gather" /\ task[i].pc = "parsing" /\ task[i].text_markdown.kind = "unset"
    /\ \E ok \in BOOLEAN :
         IF ok
           THEN /\ task' = [task EXCEPT ![i].text_markdown =
                              SubReturn(CleanText("hybrid", ElementsOf(task[i].url)))]
                /\ stderr' = stderr \cup { << "    > Running unstructured text parser..." >> }
           ELSE /\ task' = [task EXCEPT ![i].text_markdown = OnTextException("extraction"),
                                        ![i].failed = @ \cup {"extraction"}]
                /\ stderr' = stderr \cup { << "    > Running unstructured text parser..." >>,
                                           << "    > Unstructured parser failed: ", "extraction" >> }
    /\ UNCHANGED << variant, pc, searchCalls, response, found, urls, invoked, finished,
                    output, stdout, file >>

\* parse_images_with_vlm(), then the inner asyncio.gather completes: combine and
\* return, or land in the except clause of the page processor
VlmParser(i) ==
    /\ pc = "gather" /\ task[i].pc = "parsing" /\ task[i].text_markdown.kind # "unset"
    /\ \E ok \in BOOLEAN :
         LET t == task[i]
             tm == t.text_markdown
             vd == IF ok THEN SubReturn(VlmResponse(t.url)) ELSE OnVlmException("vision")
             done == [t EXCEPT !.visual_descriptions = vd,
                               !.failed = IF ok THEN @ ELSE @ \cup {"vision"}]
             e == IF tm.kind = "raise" THEN tm.exc ELSE vd.exc
             raised == tm.kind = "raise" \/ vd.kind = "raise"
         IN  /\ task' = [task EXCEPT ![i] =
                   IF raised THEN Finish(done, ExceptHandler(t.url, e))
                   ELSE Finish(done, ReturnPair(Str(FinalMarkdown(tm.text, vd.text)), t.url))]
             /\ stdout' = IF ok THEN stdout ELSE Append(stdout, VlmFailedMessage("vision"))
             /\ stderr' = stderr \cup { << "    > Running vision parser..." >> }
                            \cup (IF raised THEN { ErrorParsing(t.url, e) } ELSE {})
    /\ finished' = Append(finished, i)
    /\ UNCHANGED << variant, pc, searchCalls, response, found, urls, invoked, output, file >>

(* ----------------------------- fan-in ---------------------------------- *)

\* results collected as the tasks complete (asyncio.as_completed order)
ParsedResultsAsCompleted == [k \in 1..Len(urls) |-> task[finished[k]].result]

\* the value of `await asyncio.gather(*tasks)`: the results in the order of `tasks`
ParsedResults == [i \in 1..Len(urls) |-> task[i].result]

\* the string appended to final_output for one page
Fragment(v, text, u) ==
    (IF v = "plain" THEN << "[Source: ", u, "]\n" >>
                    ELSE << "[Source: ", u, "]\n #Webpage Title: " >>)
        \o text \o << "\n\n", "--------------------", "\n" >>

\* the loop `for text, url in parsed_results: if text: final_output.append(...)`
RECURSIVE FinalOutput(_, _)
FinalOutput(v, results) ==
    IF results = <<>> THEN <<>>
    ELSE LET r == Head(results)
             rest == FinalOutput(v, Tail(results))
         IN  IF Truthy(r.text) THEN << Fragment(v, r.text.text, r.url) >> \o rest
                               ELSE rest

\* "\n".join(final_output)
MergedDocument(v, results) == Join(FinalOutput(v, results), << "\n" >>)

\* asyncio.gather returns once every task is done; an exception of a task would be
\* re-raised here and leave search_and_parse_web
Gather ==
    /\ pc = "gather"
    /\ \A i \in 1..Len(urls) : task[i].pc = "done"
    /\ LET results == ParsedResults
           bad == { i \in 1..Len(urls) : results[i].kind = "raise" }
       IN  IF bad # {}
             THEN /\ output' = Raised(results[CHOOSE i \in bad : \A j \in bad : i <= j].exc)
                  /\ stderr' = stderr
             ELSE /\ output' = Returned(MergedDocument(variant, results))
                  /\ stderr' = stderr \cup { << "--- 3. Parsing complete. Returning content. ---" >> }
    /\ pc' = "returned"
    /\ UNCHANGED << variant, searchCalls, response, found, urls, invoked, task, finished, stdout, file >>

(* ------------------------------ test_run ------------------------------- *)

\* print(output); then write (plain, mode "w") or append (hybrid, mode "a") to the file
TestRun ==
    /\ pc = "returned"
    /\ IF output.kind = "return"
         THEN /\ stdout' = Append(stdout, output.text)
              /\ file' = IF variant = "plain" THEN output.text ELSE file \o output.text
         ELSE UNCHANGED << stdout, file >>
    /\ pc' = "exited"
    /\ UNCHANGED << variant, searchCalls, response, found, urls, invoked, task, finished, output, stderr >>

Next ==
    \/ SearchFails
    \/ SearchAnswers
    \/ Dispatch
    \/ \E i \in Tasks : Launch(i)
    \/ \E i \in Tasks : Goto(i)
    \/ \E i \in Tasks : Content(i)
    \/ \E i \in Tasks : Screenshot(i)
    \/ \E i \in Tasks : Close(i)
    \/ \E i \in Tasks : ScopeExit(i)
    \/ \E i \in Tasks : TextParser(i)
    \/ \E i \in Tasks : VlmParser(i)
    \/ Gather
    \/ TestRun

Spec == Init /\ [][Next]_vars

(* ------------------------------ properties ----------------------------- *)

\* the URLs that follow a "[Source: " marker in a document, in document order
RECURSIVE SourcesOf(_)
SourcesOf(doc) ==
    IF Len(doc) < 2 THEN <<>>
    ELSE IF Head(doc) = "[Source: " THEN << doc[2] >> \o SourcesOf(Tail(Tail(doc)))
    ELSE SourcesOf(Tail(doc))

Dispatched == 1..Len(invoked)

IsDone(i) == task[i].pc = "done"

Absent(i) == task[i].result.kind = "return" /\ task[i].result.text.isNone

HasContent(i) == task[i].result.kind = "return" /\ ~task[i].result.text.isNone

\* the URLs of the tasks 1..n that yielded content, in dispatch order
RECURSIVE ContentUrls(_)
ContentUrls(n) ==
    IF n = 0 THEN <<>>
    ELSE IF HasContent(n) THEN Append(ContentUrls(n - 1), task[n].url)
    ELSE ContentUrls(n - 1)

Finished == pc \in { "returned", "exited" }

\* C1: whatever the completion order of the page processors, the sources of the
\* returned document are the dispatched URLs that yielded content, in search order.
C1_FragmentOrder ==
    (Finished /\ output.kind = "return")
        => SourcesOf(output.text) = ContentUrls(Len(invoked))

\* a run where a later page completed before an earlier one, both with content
\* and with different URLs, and an absent page as well
C1_Witness ==
    /\ Finished /\ output.kind = "return"
    /\ \E i, j \in Dispatched :
         /\ i < j /\ HasContent(i) /\ HasContent(j) /\ task[i].url # task[j].url
         /\ \E a, b \in 1..Len(finished) : a < b /\ finished[a] = j /\ finished[b] = i
    /\ \E k \in Dispatched : Absent(k)

\* sequence s with position i removed
RemoveAt(s, i) == SubSeq(s, 1, i - 1) \o SubSeq(s, i + 1, Len(s))

\* what search_and_parse_web returns for a URL list and the page results of that list
RunOn(list, results) ==
    IF list = <<>> THEN NoResultsMessage ELSE MergedDocument(variant, results)

AllResults == [i \in 1..Len(invoked) |-> task[i].result]

\* C2: a failing page processor does not change the document: the document equals
\* the one obtained with the failing URL removed from the list.
C2_FailureIsolation ==
    (Finished /\ output.kind = "return")
        => \A i \in Dispatched :
             (task[i].failed # {} /\ Absent(i))
                => output.text = RunOn(RemoveAt(invoked, i), RemoveAt(AllResults, i))

\* C3: when every dispatched page processor yields absence, the result is the
\* "no results" marker, as for an empty search.
C3_AllAbsentIsNoResults ==
    (Finished /\ output.kind = "return" /\ invoked # <<>>
       /\ \A i \in Dispatched : Absent(i))
        => output.text = NoResultsMessage

\* C4: a page processor that has returned holds no launched browser, and no run
\* ends with one.
C4_BrowserReleased ==
    /\ \A i \in Tasks : IsDone(i) => task[i].browser # "launched"
    /\ Finished => \A i \in Tasks : task[i].browser # "launched"

\* page processors that acquired the browser and left on a navigation timeout, on
\* a failed content retrieval, and on success
C4_Witness ==
    \E i, j, k \in Dispatched :
        /\ IsDone(i) /\ "timeout" \in task[i].failed /\ task[i].browser = "closed"
        /\ IsDone(j) /\ "content" \in task[j].failed /\ task[j].browser = "closed"
        /\ IsDone(k) /\ task[k].failed = {} /\ task[k].browser = "closed"

CaptureSteps == { "launch", "timeout", "navigation", "content", "screenshot", "close" }

\* the page yields no text element (plain variant: reported as absence)
NoText(i) == CleanText(variant, ElementsOf(task[i].url)) = <<>>

\* C5 as stated: never raises, returns its own URL, absence for a failure at any
\* step and a fragment on success.
C5_AbsenceOnAnyFailure ==
    \A i \in Tasks : IsDone(i) =>
        /\ task[i].result.kind = "return"
        /\ task[i].result.url = urls[i]
        /\ task[i].failed # {} => Absent(i)
        /\ (task[i].failed = {} /\ ~(variant = "plain" /\ NoText(i))) => HasContent(i)

\* C5 amended: never raises, returns its own URL; absence for a failure of launch,
\* navigation, content retrieval, screenshot or browser close, and in the plain
\* variant of extraction or for a page without text; in the hybrid variant a failure of
\* extraction or of the vision call still gives a fragment; a fragment on success.
C5_AbsenceOnPageFailure ==
    \A i \in Tasks : IsDone(i) =>
        /\ task[i].result.kind = "return"
        /\ task[i].result.url = urls[i]
        /\ (task[i].failed \cap CaptureSteps # {}) => Absent(i)
        /\ (variant = "plain" /\ (task[i].failed # {} \/ NoText(i))) => Absent(i)
        /\ (variant = "hybrid" /\ task[i].failed \cap CaptureSteps = {}) => HasContent(i)
        /\ (variant = "plain" /\ task[i].failed = {} /\ ~NoText(i)) => HasContent(i)

\* one page lost to a navigation timeout and one hybrid page kept after its text
\* extraction failed
C5_Witness ==
    \E i, j \in Dispatched :
        /\ IsDone(i) /\ task[i].failed = {"timeout"} /\ Absent(i)
        /\ IsDone(j) /\ "extraction" \in task[j].failed /\ HasContent(j)

\* the first min(K, N) entries of the search result
FirstN(list) ==
    [k \in 1..(IF Len(list) <= MAX_RESULTS_TO_PARSE THEN Len(list) ELSE MAX_RESULTS_TO_PARSE)
        |-> list[k]]

\* C6: the page processor is invoked once per URL of the first min(K, N) search
\* results, in order; when all succeed the document has min(K, N) source blocks.
C6_InvocationCount ==
    /\ (response.kind = "json" /\ pc \in { "gather", "returned", "exited" })
         => /\ invoked = FirstN(response.results)
            /\ Cardinality({ i \in Tasks : task[i].pc # "unused" }) = Len(invoked)
            /\ \A i \in Dispatched : task[i].url = response.results[i]
    /\ (Finished /\ output.kind = "return" /\ response.kind = "json"
          /\ \A i \in 1..Len(FirstN(response.results)) : HasContent(i))
         => Len(SourcesOf(output.text)) = Len(FirstN(response.results))

\* four URLs found, three processed, three source blocks
C6_Witness ==
    /\ pc = "exited" /\ Len(response.results) = MAX_RESULTS_TO_PARSE + 1
    /\ Len(invoked) = MAX_RESULTS_TO_PARSE
    /\ \A i \in Dispatched : HasContent(i)
    /\ Len(SourcesOf(output.text)) = MAX_RESULTS_TO_PARSE

\* C7: a successful search without URLs (empty or missing 'results') returns the
\* "no results" message and never invokes the page processor.
C7_NoResults ==
    (response.kind = "json" /\ response.results = <<>>)
        => /\ invoked = <<>>
           /\ \A i \in Tasks : task[i].pc = "unused" /\ task[i].browser = "none"
           /\ pc \in { "returned", "exited" }
           /\ output = Returned(NoResultsMessage)

\* the response had no 'results' key and the message went to standard output
C7_Witness ==
    /\ pc = "exited" /\ response.kind = "json" /\ ~response.hasResults
    /\ stdout = << NoResultsMessage >>

\* the strings of a str
Tokens(text) == { text[k] : k \in 1..Len(text) }

\* C8: a failed search call is made once, returns an error string carrying the
\* cause, and no page processor is invoked.
C8_SearchFailure ==
    /\ searchCalls <= 1
    /\ response.kind = "error"
         => /\ searchCalls = 1
            /\ pc \in { "returned", "exited" }
            /\ output.kind = "return"
            /\ "Error querying SearXNG: " \in Tokens(output.text)
            /\ response.cause \in Tokens(output.text)
            /\ invoked = <<>>
            /\ \A i \in Tasks : task[i].pc = "unused" /\ task[i].browser = "none"

\* the search timed out and the run ended
C8_Witness ==
    /\ pc = "exited" /\ response.kind = "error" /\ response.cause = "ReadTimeout"
    /\ stdout = << output.text >>

TextPlaceholder == << "[Unstructured text parsing failed]" >>

VisualPlaceholder == << "[VLM analysis failed: ", "vision", "]" >>

Separator == << "\n\n", "---\n\n", "# Visual Elements Analysis (from VLM)\n\n" >>

\* C9: in the hybrid variant, once the page is captured, the page processor returns
\* a fragment: text part, separator, visual section; a failed sub-task contributes
\* its placeholder and the other sub-task's output is kept.
C9_SubTaskDegradation ==
    \A i \in Tasks :
        (variant = "hybrid" /\ IsDone(i) /\ task[i].text_markdown.kind # "unset")
            => /\ HasContent(i)
               /\ task[i].result.text.text =
                    (IF "extraction" \in task[i].failed THEN TextPlaceholder
                       ELSE CleanText("hybrid", ElementsOf(urls[i])))
                    \o Separator
                    \o (IF "vision" \in task[i].failed THEN VisualPlaceholder
                          ELSE VlmResponse(urls[i]))

\* the vision call failed, the text extraction did not, and the fragment is in the
\* returned document
C9_Witness ==
    /\ Finished /\ output.kind = "return"
    /\ \E i \in Dispatched :
         /\ IsDone(i) /\ task[i].failed = {"vision"} /\ HasContent(i)
         /\ task[i].url \in Tokens(SourcesOf(output.text))

\* C10: nothing but the final document is ever written to standard output.
C10_StdoutIsResult ==
    \A k \in 1..Len(stdout) : pc = "exited" /\ output.kind = "return" /\ stdout[k] = output.text

====
